---- MODULE Spec2Model ----
(***************************************************************************)
(* WeatherManager (src/src/weather_manager.py): the weather cache          *)
(* (get_weather / _fetch_weather), the forecast aggregation                *)
(* (_process_forecast_data) and the redraw decisions of the three display  *)
(* operations (display_weather, display_hourly_forecast,                   *)
(* display_daily_forecast).                                                *)
(*                                                                         *)
(* Units.  Time is counted in ticks of 0.1 s (the frame interval of the    *)
(* display operations), temperatures in tenths of a degree.  Timestamps    *)
(* of forecast samples (dt) are counted in hours of local time since the   *)
(* epoch.                                                                  *)
(*                                                                         *)
(* The display manager is the collaborator handed to the constructor; its  *)
(* calls (clear, draw_text, draw_weather_icon, update_display) are         *)
(* recorded in the event record ev and are taken not to fail.              *)
(*                                                                         *)
(* Inputs.  The configuration holds location.city/state/country (they are  *)
(* read before the try block); the api key may be missing.  A current-     *)
(* weather request that succeeds answers with a current-conditions object; *)
(* a forecast request that succeeds may answer with an empty JSON value,   *)
(* an object without samples, or a list of samples some of which lack a    *)
(* key.  The clock does not run backwards.                                 *)
(***************************************************************************)
EXTENDS Integers, Sequences, FiniteSets, TLC

VARIABLES
    api_key,          \* weather_config.get('api_key') is truthy
    hash_order,       \* iteration order of a set of condition strings (per process)
    now,              \* time.time()
    last_update,      \* self.last_update
    weather_data,     \* self.weather_data
    forecast_data,    \* self.forecast_data
    hourly_forecast,  \* self.hourly_forecast
    daily_forecast,   \* self.daily_forecast
    last_draw_time,   \* self.last_draw_time
    last_key,         \* self.last_temp, self.last_condition (absent until set)
    pending,          \* the request a running _fetch_weather waits on, or "none"
    ev,               \* observation of the last operation (what it did)
    hist              \* observation of earlier operations

vars == << api_key, hash_order, now, last_update, weather_data, forecast_data,
           hourly_forecast, daily_forecast, last_draw_time, last_key, pending,
           ev, hist >>

----------------------------------------------------------------------------
(* Program constants *)

\* update_interval default, 300 s, in ticks of 0.1 s
UpdateInterval == 3000

\* the 0.1 s gate of display_hourly_forecast / display_daily_forecast, in ticks
FrameInterval == 1

\* [:6], the number of 3-hour forecasts kept
HourlyLimit == 6

\* [:3], the number of days kept
DailyLimit == 3

(* Bounds of the model *)

\* the clock runs for one update interval, and visits the MaxSmall ticks after
\* its start and after the interval's end
MaxSmall == 1

\* length of the forecast lists the aggregation is checked on
MaxSamples == 7

----------------------------------------------------------------------------
(* Values *)

Conds == {"Rain", "Clear"}

\* None / a list, for hourly_forecast and daily_forecast
NoList == [some |-> FALSE, val |-> << >>]

SomeList(s) == [some |-> TRUE, val |-> s]

\* "not x" of Python for a list or None
FalsyList(l) == ~l.some \/ l.val = << >>

\* None, for weather_data
NoWeather == [kind |-> "none", temp |-> 0, cond |-> "none"]

\* "not x" for weather_data
FalsyWeather(w) == w.kind = "none"

\* None, for forecast_data
NoForecast == [kind |-> "none", list |-> << >>]

\* "not x" for forecast_data: None or an empty JSON value
FalsyForecast(f) == f.kind \in {"none", "empty"}

\* time.time() when the program starts: far beyond one update interval after 0
StartTime == 10 * UpdateInterval

Min(a, b) == IF a < b THEN a ELSE b

\* a slice that keeps the whole list
Take_all(s, n) == s

\* s[:n]
Take(s, n) == SubSeq(s, 1, Min(n, Len(s)))

\* round() of Python 3 on a value given in tenths: to nearest, ties to even
PyRound(t) ==
    LET q == t \div 10
        r == t % 10
    IN  IF r < 5 THEN q
        ELSE IF r > 5 THEN q + 1
        ELSE IF q % 2 = 0 THEN q ELSE q + 1

\* datetime.fromtimestamp(dt) as a day number and an hour of the day
DayOf(dt) == dt \div 24

HourOf(dt) == dt % 24

\* strftime('%Y-%m-%d'); the modelled timestamps lie in January 1970
DateKey(dt) == << 1970, 1, DayOf(dt) + 1 >>

\* strftime('%a'); day 0 is a Thursday
DayName(dt) ==
    << "Mon", "Tue", "Wed", "Thu", "Fri", "Sat", "Sun" >>[((DayOf(dt) + 3) % 7) + 1]

\* strftime('%m/%d')
DateStr(dt) == << 1, DayOf(dt) + 1 >>

\* strftime('%I%p').lstrip('0')
HourLabel(dt) ==
    << IF HourOf(dt) % 12 = 0 THEN 12 ELSE HourOf(dt) % 12,
       IF HourOf(dt) < 12 THEN "AM" ELSE "PM" >>

----------------------------------------------------------------------------
(* _process_forecast_data *)

\* a sample whose keys are all there
WellFormed(item) == item.ok

\* the entry appended to hourly_forecast for one sample
HourlyEntry(item) ==
    [hour |-> HourLabel(item.dt), temp |-> PyRound(item.temp), condition |-> item.cond]

\* index of the first sample of the list that raises (KeyError), 0 if none
RECURSIVE FirstBad(_, _)
FirstBad(list, i) ==
    IF i > Len(list) THEN 0
    ELSE IF ~WellFormed(list[i]) THEN i
    ELSE FirstBad(list, i + 1)

\* keys of daily_data in insertion order
RECURSIVE DateKeys(_, _)
DateKeys(list, seen) ==
    IF list = << >> THEN seen
    ELSE LET k == DateKey(Head(list).dt)
         IN  DateKeys(Tail(list),
                      IF \E i \in 1..Len(seen) : seen[i] = k THEN seen
                      ELSE Append(seen, k))

\* the samples of one date, in order
RECURSIVE GroupOf(_, _)
GroupOf(list, k) ==
    IF list = << >> THEN << >>
    ELSE IF DateKey(Head(list).dt) = k
         THEN << Head(list) >> \o GroupOf(Tail(list), k)
         ELSE GroupOf(Tail(list), k)

\* conditions.count(c)
CountOf(group, c) == Cardinality({i \in 1..Len(group) : group[i].cond = c})

\* iteration of set(conditions): the members in the set's own (hash) order
RECURSIVE SetIter(_, _)
SetIter(order, members) ==
    IF order = << >> THEN << >>
    ELSE IF Head(order) \in members
         THEN << Head(order) >> \o SetIter(Tail(order), members)
         ELSE SetIter(Tail(order), members)

\* max(iterable, key): the first element whose key no other exceeds
RECURSIVE PyMax(_, _, _)
PyMax(iter, group, best) ==
    IF iter = << >> THEN best
    ELSE PyMax(Tail(iter), group,
               IF CountOf(group, Head(iter)) > CountOf(group, best)
               THEN Head(iter) ELSE best)

\* max(set(conditions), key=conditions.count)
DominantCondition(group, order) ==
    LET it == SetIter(order, {group[i].cond : i \in 1..Len(group)})
    IN  PyMax(Tail(it), group, Head(it))

MaxTemp(group) ==
    CHOOSE t \in {group[i].temp : i \in 1..Len(group)} :
        \A i \in 1..Len(group) : group[i].temp <= t

MinTemp(group) ==
    CHOOSE t \in {group[i].temp : i \in 1..Len(group)} :
        \A i \in 1..Len(group) : group[i].temp >= t

\* the entry appended to daily_forecast for one date
DailyEntry(group, order) ==
    [date      |-> DayName(group[1].dt),
     date_str  |-> DateStr(group[1].dt),
     temp_high |-> PyRound(MaxTemp(group)),
     temp_low  |-> PyRound(MinTemp(group)),
     condition |-> DominantCondition(group, order)]

\* the list the daily loops iterate over
DailySource(list) == Take(list, HourlyLimit)

\* the daily summaries of a list of well-formed samples
DailySummaries(list, order) ==
    LET src  == DailySource(list)
        keys == Take(DateKeys(src, << >>), DailyLimit)
    IN  [i \in 1..Len(keys) |-> DailyEntry(GroupOf(src, keys[i]), order)]

\* _process_forecast_data(fd) on the lists h, d: the lists after it, and whether
\* it raised
process_forecast_data(fd, h, d, order) ==
    IF FalsyForecast(fd)
    THEN [hourly |-> h, daily |-> d, raised |-> FALSE]
    ELSE LET hourly_list == Take(fd.list, HourlyLimit)
             bad == FirstBad(hourly_list, 1)
         IN  IF bad > 0
             THEN [hourly |-> SomeList([i \in 1..(bad - 1) |-> HourlyEntry(hourly_list[i])]),
                   daily  |-> d,
                   raised |-> TRUE]
             ELSE [hourly |-> SomeList([i \in 1..Len(hourly_list) |-> HourlyEntry(hourly_list[i])]),
                   daily  |-> SomeList(DailySummaries(fd.list, order)),
                   raised |-> FALSE]

----------------------------------------------------------------------------
(* What the weather service can answer *)

\* kinds of forecast sample: hours since the previous sample, temperature, condition
SampleKinds ==
    { [ok |-> TRUE,  gap |-> 3,  temp |-> 205, cond |-> "Rain"],
      [ok |-> TRUE,  gap |-> 3,  temp |-> 215, cond |-> "Clear"],
      [ok |-> TRUE,  gap |-> 24, temp |-> -15, cond |-> "Rain"],
      [ok |-> FALSE, gap |-> 3,  temp |-> 0,   cond |-> "none"] }

\* dt of the first sample of a forecast: 09:00 of day 0
FirstDt == 9

KindSeqs(n) == UNION { [1..k -> SampleKinds] : k \in 0..n }

\* the forecast list of a sequence of sample kinds, timestamps ascending
RECURSIVE StampFrom(_, _)
StampFrom(ks, dt) ==
    IF ks = << >> THEN << >>
    ELSE << [ok |-> Head(ks).ok, dt |-> dt, temp |-> Head(ks).temp, cond |-> Head(ks).cond] >>
         \o (IF Len(ks) = 1 THEN << >> ELSE StampFrom(Tail(ks), dt + ks[2].gap))

ForecastLists(n) == { StampFrom(ks, FirstDt) : ks \in KindSeqs(n) }

\* response.json() of the forecast request: an empty JSON value, or an object
\* with (or without) a 'list'
ForecastPayloads(n) ==
    { [kind |-> "empty", list |-> << >>] }
    \cup { [kind |-> "data", list |-> l] : l \in ForecastLists(n) }

Rainy == [ok |-> TRUE, gap |-> 3, temp |-> 205, cond |-> "Rain"]

Sunny == [ok |-> TRUE, gap |-> 3, temp |-> 215, cond |-> "Clear"]

Broken == [ok |-> FALSE, gap |-> 3, temp |-> 0, cond |-> "none"]

\* the forecast payloads the weather service answers with in the cache's runs
FetchedForecasts ==
    { [kind |-> "empty", list |-> << >>] }
    \cup { [kind |-> "data", list |-> StampFrom(ks, FirstDt)] :
             ks \in { << >>, << Rainy, Sunny >>, << Rainy, Broken >> } }

\* response.json() of the current-weather request when it succeeds: a
\* current-conditions object (main.temp, weather[0].main, main.humidity)
WeatherPayloads ==
    { [kind |-> "data", temp |-> 206, cond |-> "Clear"],
      [kind |-> "data", temp |-> 214, cond |-> "Rain"] }

\* ticks that pass while the requests of one fetch are answered
NetDelays == {0, 1}

NoResponse ==
    [geo |-> "none", weather_ok |-> FALSE, weather |-> NoWeather,
     forecast_ok |-> FALSE, forecast |-> NoForecast, delay |-> 0]

\* the answers to the (up to three) requests of one fetch
Responses ==
    { [NoResponse EXCEPT !.geo = g, !.delay = d] :
          g \in {"error", "empty"}, d \in NetDelays }
    \cup { [NoResponse EXCEPT !.geo = "ok", !.delay = d] : d \in NetDelays }
    \cup { [NoResponse EXCEPT !.geo = "ok", !.weather_ok = TRUE, !.weather = w,
                              !.delay = d] :
          w \in WeatherPayloads, d \in NetDelays }
    \cup { [NoResponse EXCEPT !.geo = "ok", !.weather_ok = TRUE, !.weather = w,
                              !.forecast_ok = TRUE, !.forecast = f, !.delay = d] :
          w \in WeatherPayloads, f \in FetchedForecasts, d \in NetDelays }

----------------------------------------------------------------------------
(* _fetch_weather and get_weather, on the fields of self *)

Self ==
    [weather_data |-> weather_data, forecast_data |-> forecast_data,
     hourly_forecast |-> hourly_forecast, daily_forecast |-> daily_forecast,
     last_update |-> last_update]

\* the result of a call that fetched nothing: self unchanged
NoFetch(s, t) ==
    [self |-> s, now |-> t, fetches |-> 0, outcome |-> "none"]

\* the except branch: weather_data and forecast_data are set to None
OnException(s) == [s EXCEPT !.weather_data = NoWeather, !.forecast_data = NoForecast]

\* last_update assigned before the requests are made, whatever comes of them
SetLastUpdate_early(s, t, completed) == [s EXCEPT !.last_update = t]

\* self.last_update = time.time() is reached only when the try block completes
SetLastUpdate(s, t, completed) ==
    IF completed THEN [s EXCEPT !.last_update = t] ELSE s

\* the early returns of _fetch_weather leave self as it is
EarlyReturn(s) == s

\* _fetch_weather at time t with the service answering r
fetch_weather(s, key, r, t, order) ==
    IF ~key
    THEN [self |-> EarlyReturn(s), now |-> t, fetches |-> 1, outcome |-> "no_key"]
    ELSE IF r.geo = "error"
    THEN [self |-> SetLastUpdate(OnException(s), t + r.delay, FALSE),
          now |-> t + r.delay, fetches |-> 1, outcome |-> "geo_error"]
    ELSE IF r.geo = "empty"
    THEN [self |-> EarlyReturn(s), now |-> t + r.delay, fetches |-> 1,
          outcome |-> "not_found"]
    ELSE IF ~r.weather_ok
    THEN [self |-> SetLastUpdate(OnException(s), t + r.delay, FALSE),
          now |-> t + r.delay, fetches |-> 1, outcome |-> "weather_error"]
    ELSE IF ~r.forecast_ok
    THEN [self |-> SetLastUpdate(OnException([s EXCEPT !.weather_data = r.weather]),
                                 t + r.delay, FALSE),
          now |-> t + r.delay, fetches |-> 1, outcome |-> "forecast_error"]
    ELSE LET p == process_forecast_data(r.forecast, s.hourly_forecast,
                                        s.daily_forecast, order)
             s1 == [s EXCEPT !.weather_data = r.weather,
                             !.forecast_data = r.forecast,
                             !.hourly_forecast = p.hourly,
                             !.daily_forecast = p.daily]
         IN  IF p.raised
             THEN [self |-> SetLastUpdate(OnException(s1), t + r.delay, FALSE),
                   now |-> t + r.delay, fetches |-> 1, outcome |-> "process_error"]
             ELSE [self |-> SetLastUpdate(s1, t + r.delay, TRUE),
                   now |-> t + r.delay, fetches |-> 1, outcome |-> "ok"]

\* the fetch attempts that send the geocoding request: every attempt that gets
\* past the api key test
Geocodes(outcome) == outcome \notin {"none", "no_key"}

\* the staleness test with >= for >
NeedsFetch_ge(wd, t, lu) == FalsyWeather(wd) \/ t - lu >= UpdateInterval

\* the condition of get_weather under which it fetches
NeedsFetch(wd, t, lu) == FalsyWeather(wd) \/ t - lu > UpdateInterval

\* get_weather at time t; it returns self.weather_data
get_weather(s, key, r, t, order) ==
    IF NeedsFetch(s.weather_data, t, s.last_update)
    THEN fetch_weather(s, key, r, t, order)
    ELSE NoFetch(s, t)

\* the answers a call of get_weather may meet: none when it does not ask
Answers(s, key, t) ==
    IF NeedsFetch(s.weather_data, t, s.last_update) /\ key THEN Responses
    ELSE {NoResponse}

----------------------------------------------------------------------------
(* State *)

\* no last_temp / last_condition attribute yet
NoKey == [has |-> FALSE, temp |-> 0, cond |-> "none"]

KeyOf(temp, cond) == [has |-> TRUE, temp |-> temp, cond |-> cond]

\* the orders in which a set of conditions may iterate
HashOrders ==
    { o \in [1..Cardinality(Conds) -> Conds] : \A c \in Conds : \E i \in DOMAIN o : o[i] = c }

NoEvent ==
    [op |-> "init", force |-> FALSE, scroll |-> 0, called_get |-> FALSE,
     retry |-> FALSE, fetches |-> 0, outcome |-> "none", raised |-> FALSE,
     drew |-> FALSE]

\* cur_key: the {temperature, condition} of the latest display_weather request
\*   (NoKey when it had no data to show, or there was none);
\* hourly_scroll: the scroll offset of the latest hourly draw, -1 before the first;
\* daily_drawn: the daily view was drawn;
\* daily_shown: the daily list of the latest daily draw, None before the first;
\* after_failure: the latest get_weather call made a fetch attempt that failed
NoHist ==
    [cur_key |-> NoKey, hourly_scroll |-> -1, daily_drawn |-> FALSE,
     daily_shown |-> NoList, after_failure |-> FALSE]

\* the fetch outcomes that are failures
Failures ==
    {"no_key", "geo_error", "not_found", "weather_error", "forecast_error",
     "process_error"}

\* __init__
Init ==
    /\ api_key \in BOOLEAN
    /\ hash_order \in HashOrders
    /\ now = StartTime
    /\ last_update = 0
    /\ weather_data = NoWeather
    /\ forecast_data = NoForecast
    /\ hourly_forecast = NoList
    /\ daily_forecast = NoList
    /\ last_draw_time = 0
    /\ last_key = NoKey
    /\ ev = NoEvent
    /\ pending = "none"
    /\ hist = NoHist

\* the clock values the model visits
TimeOK(t) ==
    /\ t - StartTime <= UpdateInterval + MaxSmall
    /\ (t - StartTime) % UpdateInterval <= MaxSmall

\* the fields of self a call of get_weather leaves behind
Commit(g) ==
    /\ TimeOK(g.now)
    /\ now' = g.now
    /\ weather_data' = g.self.weather_data
    /\ forecast_data' = g.self.forecast_data
    /\ hourly_forecast' = g.self.hourly_forecast
    /\ daily_forecast' = g.self.daily_forecast
    /\ last_update' = g.self.last_update

\* what an operation leaves in the event record: whether it called get_weather
\* (and did so right after a failed attempt), what the call did, what was drawn
EventOf(op, force, scroll, g, called) ==
    [op |-> op, force |-> force, scroll |-> scroll, called_get |-> called,
     retry |-> called /\ hist.after_failure,
     fetches |-> g.fetches, outcome |-> g.outcome, raised |-> FALSE, drew |-> FALSE]

\* the observation of earlier get_weather calls after one more
NoteGet(h, g) ==
    [h EXCEPT !.after_failure = (g.outcome \in Failures)]

\* time passes between two operations
Tick ==
    /\ \E d \in {1, UpdateInterval} :
          /\ TimeOK(now + d)
          /\ now' = now + d
    /\ ev' = [NoEvent EXCEPT !.op = "tick"]
    /\ UNCHANGED << api_key, hash_order, pending, last_update, weather_data,
                    forecast_data, hourly_forecast, daily_forecast, last_draw_time,
                    last_key, hist >>

\* a caller asks get_weather for the current data
GetWeather ==
    /\ \E r \in Answers(Self, api_key, now) :
          LET g == get_weather(Self, api_key, r, now, hash_order)
          IN  /\ Commit(g)
              /\ ev' = EventOf("get_weather", FALSE, 0, g, TRUE)
              /\ hist' = NoteGet(hist, g)
    /\ UNCHANGED << api_key, hash_order, pending, last_draw_time, last_key >>

\* the dirty check without the comparison of the condition
ShouldDrawWeather_tempOnly(force, key, temp, cond) ==
    force \/ ~key.has \/ temp # key.temp

\* no dirty check at all
ShouldDrawWeather_always(force, key, temp, cond) == TRUE

\* the condition of display_weather under which it draws
ShouldDrawWeather(force, key, temp, cond) ==
    force \/ ~key.has \/ temp # key.temp \/ cond # key.cond

\* display_weather(force_clear)
DisplayWeather ==
    /\ \E force \in BOOLEAN, r \in Answers(Self, api_key, now) :
          LET g  == get_weather(Self, api_key, r, now, hash_order)
              wd == g.self.weather_data
              e  == EventOf("display_weather", force, 0, g, TRUE)
              h  == NoteGet(hist, g)
          IN  /\ Commit(g)
              /\ IF FalsyWeather(wd)
                 THEN /\ ev' = e
                      /\ hist' = [h EXCEPT !.cur_key = NoKey]
                      /\ UNCHANGED last_key
                 ELSE LET temp == PyRound(wd.temp)
                          cond == wd.cond
                      IN  IF ShouldDrawWeather(force, last_key, temp, cond)
                          THEN /\ ev' = [e EXCEPT !.drew = TRUE]
                               /\ hist' = [h EXCEPT !.cur_key = KeyOf(temp, cond)]
                               /\ last_key' = KeyOf(temp, cond)
                          ELSE /\ ev' = e
                               /\ hist' = [h EXCEPT !.cur_key = KeyOf(temp, cond)]
                               /\ UNCHANGED last_key
    /\ UNCHANGED << api_key, hash_order, pending, last_draw_time >>

\* self.last_draw_time = current_time placed before the gate
LastDrawTime_beforeGate(drew, t, ldt) == t

\* self.last_draw_time after a request: it is assigned in the last statement
\* of a render, after update_display
LastDrawTime(drew, t, ldt) == IF drew THEN t ELSE ldt

\* the gate without its "not force_clear"
TooSoon_ignoresForce(force, t, ldt) == t - ldt < FrameInterval

\* the gate of display_hourly_forecast and display_daily_forecast: return
\* without drawing
TooSoon(force, t, ldt) == ~force /\ t - ldt < FrameInterval

Scrolls == {0, 1}

\* the forecast views asking get_weather on every request
CallsGet_always(list) == TRUE

\* "if not self.hourly_forecast: self.get_weather()", and the same for the
\* daily list: the forecast views ask get_weather only when their list is falsy
CallsGet(list) == FalsyList(list)

\* display_hourly_forecast(scroll_position, force_clear)
DisplayHourly ==
    /\ \E force \in BOOLEAN, scroll \in Scrolls :
          LET call == CallsGet(hourly_forecast)
          IN  \E r \in (IF call THEN Answers(Self, api_key, now) ELSE {NoResponse}) :
                LET g == IF call THEN get_weather(Self, api_key, r, now, hash_order)
                         ELSE NoFetch(Self, now)
                    e == EventOf("display_hourly", force, scroll, g, call)
                    h == IF call THEN NoteGet(hist, g) ELSE hist
                IN  /\ Commit(g)
                    /\ IF FalsyList(g.self.hourly_forecast) \/ TooSoon(force, g.now, last_draw_time)
                       THEN /\ ev' = e
                            /\ hist' = h
                            /\ last_draw_time' = LastDrawTime(FALSE, g.now, last_draw_time)
                       ELSE /\ ev' = [e EXCEPT !.drew = TRUE]
                            /\ hist' = [h EXCEPT !.hourly_scroll = scroll]
                            /\ last_draw_time' = LastDrawTime(TRUE, g.now, last_draw_time)
    /\ UNCHANGED << api_key, hash_order, pending, last_key >>

\* display_daily_forecast(force_clear)
DisplayDaily ==
    /\ \E force \in BOOLEAN :
          LET call == CallsGet(daily_forecast)
          IN  \E r \in (IF call THEN Answers(Self, api_key, now) ELSE {NoResponse}) :
                LET g == IF call THEN get_weather(Self, api_key, r, now, hash_order)
                         ELSE NoFetch(Self, now)
                    e == EventOf("display_daily", force, 0, g, call)
                    h == IF call THEN NoteGet(hist, g) ELSE hist
                IN  /\ Commit(g)
                    /\ IF FalsyList(g.self.daily_forecast) \/ TooSoon(force, g.now, last_draw_time)
                       THEN /\ ev' = e
                            /\ hist' = h
                            /\ last_draw_time' = LastDrawTime(FALSE, g.now, last_draw_time)
                       ELSE /\ ev' = [e EXCEPT !.drew = TRUE]
                            /\ hist' = [h EXCEPT !.daily_drawn = TRUE,
                                                 !.daily_shown = g.self.daily_forecast]
                            /\ last_draw_time' = LastDrawTime(TRUE, g.now, last_draw_time)
    /\ UNCHANGED << api_key, hash_order, pending, last_key >>

Next ==
    \/ Tick
    \/ GetWeather
    \/ DisplayWeather
    \/ DisplayHourly
    \/ DisplayDaily

Spec == Init /\ [][Next]_vars

----------------------------------------------------------------------------
(* The aggregation on its own: _process_forecast_data applied to one payload *)

AggInit ==
    /\ api_key = TRUE
    /\ hash_order \in HashOrders
    /\ now = StartTime
    /\ last_update = 0
    /\ weather_data = NoWeather
    /\ forecast_data \in ForecastPayloads(MaxSamples)
    /\ hourly_forecast = NoList
    /\ daily_forecast = NoList
    /\ last_draw_time = 0
    /\ last_key = NoKey
    /\ ev = NoEvent
    /\ pending = "none"
    /\ hist = NoHist

\* self._process_forecast_data(self.forecast_data)
ProcessForecast ==
    /\ ev.op = "init"
    /\ LET p == process_forecast_data(forecast_data, hourly_forecast,
                                      daily_forecast, hash_order)
       IN  /\ hourly_forecast' = p.hourly
           /\ daily_forecast' = p.daily
           /\ ev' = [NoEvent EXCEPT !.op = "process", !.raised = p.raised]
    /\ UNCHANGED << api_key, hash_order, pending, now, last_update, weather_data,
                    forecast_data, last_draw_time, last_key, hist >>

AggNext == ProcessForecast

AggSpec == AggInit /\ [][AggNext]_vars

----------------------------------------------------------------------------
(* get_weather request by request: requests.get is called without a timeout, *)
(* so each of the three requests of a fetch waits until the service answers  *)

\* a request was answered and _fetch_weather goes on to the next one
Waiting(on) == [NoEvent EXCEPT !.op = "get_weather", !.outcome = on]

\* the call returns, leaving what g says
Return(g) ==
    /\ Commit(g)
    /\ pending' = "none"
    /\ ev' = EventOf("get_weather", FALSE, 0, g, TRUE)
    /\ hist' = NoteGet(hist, g)
    /\ UNCHANGED << api_key, hash_order, last_draw_time, last_key >>

\* a caller calls get_weather: it returns at once when nothing is to be
\* fetched or the api key is missing, else it sends the geocoding request
NetCall ==
    /\ pending = "none"
    /\ IF NeedsFetch(weather_data, now, last_update) /\ api_key
       THEN /\ pending' = "geo"
            /\ ev' = Waiting("geo")
            /\ UNCHANGED << api_key, hash_order, now, last_update, weather_data,
                            forecast_data, hourly_forecast, daily_forecast,
                            last_draw_time, last_key, hist >>
       ELSE Return(get_weather(Self, api_key, NoResponse, now, hash_order))

\* the geocoding request is answered: an error, no coordinates, or coordinates,
\* upon which the current-weather request is sent
GeoAnswer ==
    /\ pending = "geo"
    /\ \/ \E a \in {"error", "empty"} :
             Return(fetch_weather(Self, api_key, [NoResponse EXCEPT !.geo = a],
                                  now, hash_order))
       \/ /\ pending' = "weather"
          /\ ev' = Waiting("weather")
          /\ UNCHANGED << api_key, hash_order, now, last_update, weather_data,
                          forecast_data, hourly_forecast, daily_forecast,
                          last_draw_time, last_key, hist >>

\* the current-weather request is answered: an error, or the data, which are
\* assigned to weather_data before the forecast request is sent
WeatherAnswer ==
    /\ pending = "weather"
    /\ \/ Return(fetch_weather(Self, api_key, [NoResponse EXCEPT !.geo = "ok"],
                                now, hash_order))
       \/ \E w \in WeatherPayloads :
             /\ weather_data' = w
             /\ pending' = "forecast"
             /\ ev' = Waiting("forecast")
             /\ UNCHANGED << api_key, hash_order, now, last_update, forecast_data,
                             hourly_forecast, daily_forecast, last_draw_time,
                             last_key, hist >>

\* the forecast request is answered: an error, or a payload, which is
\* aggregated before the call returns
ForecastAnswer ==
    /\ pending = "forecast"
    /\ LET got == [NoResponse EXCEPT !.geo = "ok", !.weather_ok = TRUE,
                                     !.weather = weather_data]
       IN  \/ Return(fetch_weather(Self, api_key, got, now, hash_order))
           \/ \E f \in FetchedForecasts :
                 Return(fetch_weather(Self, api_key,
                                      [got EXCEPT !.forecast_ok = TRUE, !.forecast = f],
                                      now, hash_order))

NetNext ==
    \/ Tick
    \/ NetCall
    \/ GeoAnswer
    \/ WeatherAnswer
    \/ ForecastAnswer

\* time passes and callers keep calling; whether and when the weather service
\* answers a request is up to the service
NetSpec == Init /\ [][NetNext]_vars /\ WF_vars(Tick) /\ WF_vars(NetCall)

----------------------------------------------------------------------------
(* Claims *)

\* the view of an operation has data to show once its get_weather call is over
HasData(op) ==
    \/ op = "display_weather" /\ weather_data.kind = "data"
    \/ op = "display_hourly" /\ ~FalsyList(hourly_forecast)
    \/ op = "display_daily" /\ ~FalsyList(daily_forecast)

\* the {temperature, condition} key of the current data
CurrentKey(wd) == KeyOf(PyRound(wd.temp), wd.cond)

\* C1: after a failed fetch attempt the current-conditions data, the hourly list
\* and the daily list are all absent.
C1_FailedFetchDiscardsSnapshot ==
    ev.outcome \in Failures =>
        /\ weather_data = NoWeather
        /\ hourly_forecast = NoList
        /\ daily_forecast = NoList

\* C2: a call of get_weather makes a fetch attempt if and only if the snapshot
\* is absent or now - last_update > update_interval, and never more than one.
C2_FetchIffAbsentOrStale ==
    [][ev'.called_get =>
          /\ ev'.fetches <= 1
          /\ ev'.fetches = 1 <=>
                (weather_data = NoWeather \/ now - last_update > UpdateInterval)]_vars

\* a second call, later but within the interval of a successful fetch, fetched
\* nothing
C2_Witness ==
    /\ ev.op = "get_weather"
    /\ ev.fetches = 0
    /\ weather_data.kind = "data"
    /\ now > last_update
    /\ now - last_update <= UpdateInterval

AllWellFormed(list) == \A i \in 1..Len(list) : WellFormed(list[i])

\* C3: for a non-empty sample sequence the daily list has min(3, number of
\* distinct dates among all the samples) entries, in first-seen date order.
C3_DailyCoversAllDates ==
    LET list == forecast_data.list
        keys == DateKeys(list, << >>)
    IN  (ev.op = "process" /\ list # << >> /\ AllWellFormed(list)) =>
            /\ daily_forecast.some
            /\ Len(daily_forecast.val) = Min(3, Cardinality({keys[i] : i \in 1..Len(keys)}))
            /\ \A i \in 1..Len(daily_forecast.val) :
                   daily_forecast.val[i].date_str = << keys[i][2], keys[i][3] >>

\* index of the first sample of the group with condition c
FirstIndex(group, c) ==
    CHOOSE i \in 1..Len(group) :
        group[i].cond = c /\ \A j \in 1..(i - 1) : group[j].cond # c

\* the most frequent condition of the group, the earliest one among equals
EarliestMode(group) ==
    CHOOSE c \in {group[i].cond : i \in 1..Len(group)} :
        \A d \in {group[i].cond : i \in 1..Len(group)} :
            \/ CountOf(group, c) > CountOf(group, d)
            \/ CountOf(group, c) = CountOf(group, d)
               /\ FirstIndex(group, c) <= FirstIndex(group, d)

\* C4: the dominant condition of every daily group is its most frequent
\* condition, and among equally frequent ones the one that occurs first.
C4_DominantIsEarliestMode ==
    LET src  == DailySource(forecast_data.list)
        keys == DateKeys(src, << >>)
    IN  (ev.op = "process" /\ ~ev.raised /\ daily_forecast.some) =>
            \A i \in 1..Len(daily_forecast.val) :
                daily_forecast.val[i].condition = EarliestMode(GroupOf(src, keys[i]))

C6_FirstRequestDraws ==
    [][/\ (ev'.op = "display_weather" /\ ~last_key.has /\ weather_data'.kind = "data")
          => ev'.drew
       /\ (ev'.op = "display_hourly" /\ hist.hourly_scroll < 0
             /\ ~FalsyList(hourly_forecast'))
          => ev'.drew
       /\ (ev'.op = "display_daily" /\ ~hist.daily_drawn
             /\ ~FalsyList(daily_forecast'))
          => ev'.drew]_vars

\* C7: with force true and data to show, every display operation redraws.
C7_ForceRedraws ==
    (ev.force /\ HasData(ev.op)) => ev.drew

\* a forced daily request was drawn, after the hourly and the daily view had
\* been drawn before
C7_Witness ==
    /\ ev.op = "display_daily"
    /\ ev.force
    /\ ev.drew
    /\ hist.hourly_scroll >= 0
    /\ hist.daily_drawn

\* C8: of two consecutive unforced requests of the current view with the same
\* {temperature, condition}, the second does not redraw.
C8_SameKeyNoRedraw ==
    [][(ev'.op = "display_weather" /\ ~ev'.force
          /\ hist.cur_key.has /\ hist'.cur_key = hist.cur_key)
       => ~ev'.drew]_vars

\* an unforced request of the current view fetched again after the interval,
\* got the same key and did not redraw
C8_Witness ==
    /\ ev.op = "display_weather"
    /\ ~ev.force
    /\ ~ev.drew
    /\ ev.outcome = "ok"
    /\ hist.cur_key = last_key
    /\ last_key.has
    /\ now - StartTime >= UpdateInterval

\* C9: right after a failed attempt the next get_weather call attempts a fetch
\* again, and a failed attempt does not advance last_update.
C9_RetryAfterFailure ==
    [][/\ (hist.after_failure /\ ev'.called_get) => ev'.fetches = 1
       /\ ev'.outcome \in Failures => last_update' = last_update]_vars

\* a get_weather call right after a failed attempt fetched again, in the same
\* tick
C9_Witness ==
    /\ ev.called_get
    /\ ev.retry
    /\ ev.fetches = 1
    /\ api_key

\* C10: get_weather does not raise, and every failure of the weather service
\* ends with it returning an absent snapshot.
C10_FailureReturnsAbsent ==
    (ev.op = "get_weather" /\ ev.outcome \in Failures) =>
        /\ ~ev.raised
        /\ weather_data = NoWeather

\* C11: the hourly list of a sequence of n samples is its first min(6, n)
\* samples in input order, each with its temperature rounded to the nearest
\* integer and its condition copied; the hourly list never has more than 6
\* entries.
C11_HourlyIsFirstSix ==
    LET list == forecast_data.list
        h    == hourly_forecast.val
    IN  /\ Len(h) <= 6
        /\ (ev.op = "process" /\ forecast_data.kind = "data"
              /\ AllWellFormed(Take(list, HourlyLimit))) =>
              /\ hourly_forecast.some
              /\ Len(h) = Min(6, Len(list))
              /\ \A i \in 1..Len(h) :
                    /\ h[i].condition = list[i].cond
                    /\ h[i].hour = HourLabel(list[i].dt)
                    /\ 10 * h[i].temp - list[i].temp \in -5..5

\* a list of more than 6 samples with both conditions among the first 6 was
\* aggregated
C11_Witness ==
    /\ ev.op = "process"
    /\ Len(forecast_data.list) > HourlyLimit
    /\ Len(hourly_forecast.val) = HourlyLimit
    /\ \E i, j \in 1..HourlyLimit :
          hourly_forecast.val[i].condition # hourly_forecast.val[j].condition

\* C12: aggregating an empty or absent forecast payload leaves an empty hourly
\* list and an empty daily list, not the lists of an earlier aggregation, and
\* the aggregation never raises, whatever the payload.
C12_EmptyPayloadYieldsEmptyLists ==
    /\ ev.outcome # "process_error"
    /\ (ev.outcome = "ok" /\ FalsyForecast(forecast_data)) =>
          (FalsyList(hourly_forecast) /\ FalsyList(daily_forecast))

\* C13: every daily entry has temp_high >= temp_low, temp_high being the
\* rounded maximum and temp_low the rounded minimum of the temperatures of the
\* samples of the entry's date.
C13_HighLowOfDateSamples ==
    LET list == forecast_data.list
        keys == DateKeys(DailySource(list), << >>)
    IN  (ev.op = "process" /\ daily_forecast.some /\ AllWellFormed(list)) =>
            \A i \in 1..Len(daily_forecast.val) :
                LET e == daily_forecast.val[i]
                    g == GroupOf(list, keys[i])
                IN  /\ e.temp_high >= e.temp_low
                    /\ e.temp_high = PyRound(MaxTemp(g))
                    /\ e.temp_low = PyRound(MinTemp(g))

\* the hourly and daily lists that aggregating the forecast payload fd gives
AggregateOf(fd, order) ==
    IF FalsyForecast(fd) THEN [hourly |-> << >>, daily |-> << >>]
    ELSE [hourly |-> [i \in 1..Min(HourlyLimit, Len(fd.list)) |-> HourlyEntry(fd.list[i])],
          daily  |-> DailySummaries(fd.list, order)]

\* C14: after any get_weather call the snapshot is either absent as a whole
\* (no current data, no hourly list, no daily list) or its current data, its
\* hourly list and its daily list all belong to one fetch: the lists are the
\* aggregation of the forecast stored with the current data.
C14_SnapshotIsAtomic ==
    ev.called_get =>
        \/ /\ weather_data = NoWeather
           /\ FalsyList(hourly_forecast)
           /\ FalsyList(daily_forecast)
        \/ /\ weather_data.kind = "data"
           /\ AllWellFormed(forecast_data.list)
           /\ hourly_forecast.val = AggregateOf(forecast_data, hash_order).hourly
           /\ daily_forecast.val = AggregateOf(forecast_data, hash_order).daily

DisplayOps == {"display_weather", "display_hourly", "display_daily"}

\* C15: a display request, forced or not, that finds the snapshot absent once
\* its get_weather call is over draws nothing and leaves the render state
\* (last_temp, last_condition, last_draw_time) as it was.
C15_AbsentSnapshotDrawsNothing ==
    [][(ev'.op \in DisplayOps /\ weather_data' = NoWeather) =>
          /\ ~ev'.drew
          /\ last_key' = last_key
          /\ last_draw_time' = last_draw_time]_vars

\* C16: an unforced request of the current view whose key is the recorded one,
\* and an unforced request of the daily view whose list is the one last drawn,
\* do not redraw, however long ago the last draw was.
C16_StaticViewsIgnoreTime ==
    [][/\ (ev'.op = "display_weather" /\ ~ev'.force /\ last_key.has
             /\ weather_data'.kind = "data" /\ CurrentKey(weather_data') = last_key)
          => ~ev'.drew
       /\ (ev'.op = "display_daily" /\ ~ev'.force /\ hist.daily_shown.some
             /\ daily_forecast' = hist.daily_shown)
          => ~ev'.drew]_vars

\* C17: a step that does not redraw leaves last_temp, last_condition and
\* last_draw_time as they were; a redraw of the current view records the key
\* it drew and nothing else, a redraw of the hourly or daily view records the
\* time of the request and nothing else.
C17_RenderStateOnlyAfterDraw ==
    [][/\ ~ev'.drew => (last_key' = last_key /\ last_draw_time' = last_draw_time)
       /\ (ev'.drew /\ ev'.op = "display_weather") =>
             (last_key' = CurrentKey(weather_data') /\ last_draw_time' = last_draw_time)
       /\ (ev'.drew /\ ev'.op # "display_weather") =>
             (last_key' = last_key /\ last_draw_time' = now'
                /\ ev'.op \in {"display_hourly", "display_daily"})]_vars

\* an unforced hourly request with data to show was skipped by the time gate,
\* after the current view and the hourly or daily view had been drawn
C17_Witness ==
    /\ ev.op = "display_hourly"
    /\ ~ev.force
    /\ ~ev.drew
    /\ ~FalsyList(hourly_forecast)
    /\ last_draw_time = now
    /\ last_key.has

\* C18: once a fetch has completed, and so has resolved the place name, no
\* later fetch attempt sends a geocoding request.
C18_GeocodesOnce ==
    [][(last_update > 0 /\ ev'.fetches = 1) => ~Geocodes(ev'.outcome)]_vars

\* C19: every get_weather call returns: a call that waits on a request of the
\* weather service eventually stops waiting, whether or not the service ever
\* answers.
C19_CallReturns == (pending # "none") ~> (pending = "none")

\* C20: display_hourly_forecast and display_daily_forecast call get_weather
\* exactly when their own list is absent or empty; with a non-empty list the
\* request makes no fetch attempt and leaves the current data, the forecast
\* lists and last_update as they were, however stale they are.
C20_ForecastViewsFetchOnlyWhenEmpty ==
    [][/\ ev'.op = "display_hourly" =>
             /\ ev'.called_get <=> FalsyList(hourly_forecast)
             /\ ~FalsyList(hourly_forecast) =>
                   (ev'.fetches = 0 /\ Self' = Self /\ now' = now)
       /\ ev'.op = "display_daily" =>
             /\ ev'.called_get <=> FalsyList(daily_forecast)
             /\ ~FalsyList(daily_forecast) =>
                   (ev'.fetches = 0 /\ Self' = Self /\ now' = now)]_vars

\* the hourly view was drawn from lists fetched more than an update interval
\* ago, without a call of get_weather
C20_Witness ==
    /\ ev.op = "display_hourly"
    /\ ev.drew
    /\ ~ev.called_get
    /\ last_update > 0
    /\ now - last_update > UpdateInterval
    /\ ~FalsyList(daily_forecast)

====
